---- MODULE Spec2Model ----
(***************************************************************************)
(* Decode::execute of bin-encode-decode (src/decode/impl.rs): a charset is *)
(* checked, the text is scanned character by character, every four charset *)
(* positions are unpacked into three bytes, zero bytes are filtered out    *)
(* and the rest is converted to a String.                                  *)
(*                                                                         *)
(* Characters are Unicode code points (naturals), strings are sequences of *)
(* code points, a String result is the sequence of its UTF-8 bytes.        *)
(***************************************************************************)
EXTENDS Integers, Sequences, FiniteSets, TLC

VARIABLES
    charset,     \* the charset argument
    decode_str,  \* the decode_str argument
    pos,         \* how many characters of decode_str the loop has taken
    buffer,      \* the indices (u8) of the group being collected
    decoded,     \* the bytes unpacked so far
    result,      \* what the call returned, NoResult before it returns
    pc,          \* "check", "loop", "group" (inside an iteration), "done"
    origin       \* where decode_str came from (not read by the decoder)

vars == <<charset, decode_str, pos, buffer, decoded, result, pc, origin>>

\* Longest raw text handed to the decoder in Spec.
MaxTextLen == 5

\* Most 3-byte groups of a payload handed to the encoder in SpecEncoded.
MaxGroups == 4

(***************************************************************************)
(* Integer helpers: Rust's `as u8`, `<<`, `>>` and `|` on usize.           *)
(***************************************************************************)
RECURSIVE Pow2(_)
Pow2(k) == IF k = 0 THEN 1 ELSE 2 * Pow2(k - 1)

AsU8(n) == n % 256

Shl(n, k) == n * Pow2(k)

Shr(n, k) == n \div Pow2(k)

RECURSIVE BitOr(_, _)
BitOr(a, b) ==
    IF a = 0 THEN b
    ELSE IF b = 0 THEN a
    ELSE (IF a % 2 = 1 \/ b % 2 = 1 THEN 1 ELSE 0) + 2 * BitOr(a \div 2, b \div 2)

(***************************************************************************)
(* The inputs.                                                             *)
(***************************************************************************)
\* "abcdefghijklmnopqrstuvwxyzABCDEFGHIJKLMNOPQRSTUVWXYZ0123456789_="
DocCharset ==
    [i \in 1..64 |->
        IF i <= 26 THEN 96 + i
        ELSE IF i <= 52 THEN 38 + i
        ELSE IF i <= 62 THEN i - 5
        ELSE IF i = 63 THEN 95 ELSE 61]

\* "aab0aabLaabZaab0"
DocEncoded == <<97, 97, 98, 48, 97, 97, 98, 76, 97, 97, 98, 90, 97, 97, 98, 48>>

\* "ABCDEFGHIJKLMNOPQRSTUVWXYZabcdefghijklmnopqrstuvwxyz0123456789+/"
Base64Charset ==
    [i \in 1..64 |->
        IF i <= 26 THEN 64 + i
        ELSE IF i <= 52 THEN 70 + i
        ELSE IF i <= 62 THEN i - 5
        ELSE IF i = 63 THEN 43 ELSE 47]

\* A duplicate-free charset of 300 characters: the doc charset followed by
\* the code points U+0100 .. U+01EB (positions 64 .. 299).
LongCharset == DocCharset \o [i \in 1..236 |-> 255 + i]

\* Charsets with a repeated character: "aabbcc", and '6', U+01C1, '6', U+0100.
DupCharsets == {<<97, 97, 98, 98, 99, 99>>, <<54, 449, 54, 256>>}

Charsets == {DocCharset, LongCharset} \cup DupCharsets

\* '6' (position 58; "6666" unpacks to the UTF-8 of U+BBBA), ' ' (in no
\* charset), U+0100 (position 64 of LongCharset only), U+01C1 (position 257 of
\* LongCharset only).
TextChars == {54, 32, 256, 449}

Texts == UNION {[1..n -> TextChars] : n \in 0..MaxTextLen}

\* Byte triples a payload is made of: the doc example's, a trailing-zero one,
\* a two-byte UTF-8 character followed by 'A', and 'A', 0xFF, 'B'.
Triples ==
    {<<0, 0, 116>>, <<0, 0, 101>>, <<0, 0, 115>>, <<116, 0, 0>>,
     <<195, 169, 65>>, <<65, 255, 66>>}

RECURSIVE Flatten(_)
Flatten(groups) ==
    IF groups = <<>> THEN <<>> ELSE Head(groups) \o Flatten(Tail(groups))

Payloads == {Flatten(g) : g \in UNION {[1..n -> Triples] : n \in 0..MaxGroups}}

\* What the text was made from: nothing (a raw text), or a payload that the
\* encoder turned into text under a charset.
NoOrigin == [encoded |-> FALSE, charset |-> <<>>, payload |-> <<>>]

(***************************************************************************)
(* Charset::judge_charset_safe: no character occurs twice, that is, the    *)
(* charset has as many distinct characters as positions.                   *)
(***************************************************************************)
judge_charset_safe(cs) ==
    Cardinality({cs[i] : i \in 1..Len(cs)}) = Len(cs)

(***************************************************************************)
(* The encoder of complete 3-byte groups: 24 bits, four 6-bit indices,     *)
(* each mapped to the charset character at that position.                  *)
(***************************************************************************)
EncodeGroup(cs, b0, b1, b2) ==
    LET v == Shl(b0, 16) + Shl(b1, 8) + b2
    IN  <<cs[(Shr(v, 18) % 64) + 1], cs[(Shr(v, 12) % 64) + 1],
          cs[(Shr(v, 6) % 64) + 1], cs[(v % 64) + 1]>>

RECURSIVE Encode(_, _)
Encode(cs, payload) ==
    IF Len(payload) < 3 THEN <<>>
    ELSE EncodeGroup(cs, payload[1], payload[2], payload[3])
         \o Encode(cs, SubSeq(payload, 4, Len(payload)))

(***************************************************************************)
(* Decode::execute, piece by piece.                                        *)
(***************************************************************************)
Ok(bytes) == [tag |-> "Ok", value |-> bytes]

ErrCharsetError == [tag |-> "Err", value |-> <<>>]

NoResult == [tag |-> "None", value |-> <<>>]

\* if !Charset::judge_charset_safe(charset)
\* Variant: the charset check is left out.
CharsetRejectedNever(cs) == FALSE

CharsetRejected(cs) == ~judge_charset_safe(cs)

\* charset.chars().position(|c| c == ch): the first position, counted from 0.
Position(cs, ch) ==
    LET hits == {i \in 1..Len(cs) : cs[i] = ch}
    IN  IF hits = {} THEN [some |-> FALSE, idx |-> 0]
        ELSE [some |-> TRUE,
              idx |-> (CHOOSE i \in hits : \A j \in hits : i <= j) - 1]

\* if let Some(idx) = ... { buffer.push(idx as u8); }
\* Variant: a character outside the charset empties the buffer.
LookupResetting(cs, buf, ch) ==
    IF Position(cs, ch).some THEN Append(buf, AsU8(Position(cs, ch).idx))
    ELSE <<>>

Lookup(cs, buf, ch) ==
    IF Position(cs, ch).some THEN Append(buf, AsU8(Position(cs, ch).idx))
    ELSE buf

\* combined = (buffer[0] << 18) | (buffer[1] << 12) | (buffer[2] << 6) | buffer[3]
Combined(buf) ==
    BitOr(BitOr(BitOr(Shl(buf[1], 18), Shl(buf[2], 12)), Shl(buf[3], 6)), buf[4])

\* (combined >> 16) as u8, (combined >> 8) as u8, combined as u8
\* Variant: the three bytes are pushed low byte first.
UnpackSwapped(buf) ==
    <<AsU8(Combined(buf)), AsU8(Shr(Combined(buf), 8)), AsU8(Shr(Combined(buf), 16))>>

Unpack(buf) ==
    <<AsU8(Shr(Combined(buf), 16)), AsU8(Shr(Combined(buf), 8)), AsU8(Combined(buf))>>

\* if buffer.len() == 4 { ...; buffer.clear(); }
\* Variant: buffer.clear() is left out.
GroupStepNoClear(buf, dec) ==
    IF Len(buf) = 4
    THEN [buffer |-> buf, decoded |-> dec \o Unpack(buf)]
    ELSE [buffer |-> buf, decoded |-> dec]

GroupStep(buf, dec) ==
    IF Len(buf) = 4
    THEN [buffer |-> <<>>, decoded |-> dec \o Unpack(buf)]
    ELSE [buffer |-> buf, decoded |-> dec]

\* After the loop only `decoded` is read: what is left in `buffer` is dropped.
\* Variant: an incomplete last group is padded with index 0 and unpacked.
AfterLoopFlushing(buf, dec) ==
    IF buf = <<>> THEN dec
    ELSE dec \o Unpack(buf \o [i \in 1..(4 - Len(buf)) |-> 0])

AfterLoop(buf, dec) == dec

\* decoded.into_iter().filter(|&x| x != 0).collect()
\* Variant: only the zero bytes at the end are removed.
FilterTrailingZeros(dec) ==
    LET keep == {i \in 1..Len(dec) : dec[i] # 0}
    IN  IF keep = {} THEN <<>>
        ELSE SubSeq(dec, 1, CHOOSE i \in keep : \A j \in keep : j <= i)

FilterNonZero(dec) == SelectSeq(dec, LAMBDA x : x # 0)

\* String::from_utf8's validation: the length of the well-formed UTF-8
\* sequence that starts at bytes[i], or 0 when there is none.
IsCont(bytes, i, lo, hi) == i <= Len(bytes) /\ bytes[i] >= lo /\ bytes[i] <= hi

Utf8SeqLen(bytes, i) ==
    LET b == bytes[i]
    IN  IF b < 128 THEN 1
        ELSE IF b >= 194 /\ b <= 223
            THEN IF IsCont(bytes, i + 1, 128, 191) THEN 2 ELSE 0
        ELSE IF b >= 224 /\ b <= 239
            THEN IF /\ IsCont(bytes, i + 1,
                              IF b = 224 THEN 160 ELSE 128,
                              IF b = 237 THEN 159 ELSE 191)
                    /\ IsCont(bytes, i + 2, 128, 191)
                 THEN 3 ELSE 0
        ELSE IF b >= 240 /\ b <= 244
            THEN IF /\ IsCont(bytes, i + 1,
                              IF b = 240 THEN 144 ELSE 128,
                              IF b = 244 THEN 143 ELSE 191)
                    /\ IsCont(bytes, i + 2, 128, 191)
                    /\ IsCont(bytes, i + 3, 128, 191)
                 THEN 4 ELSE 0
        ELSE 0

\* The length of the longest prefix of bytes[i..] that is well-formed, plus i - 1.
RECURSIVE ValidUpTo(_, _)
ValidUpTo(bytes, i) ==
    IF i > Len(bytes) THEN Len(bytes)
    ELSE IF Utf8SeqLen(bytes, i) = 0 THEN i - 1
    ELSE ValidUpTo(bytes, i + Utf8SeqLen(bytes, i))

IsUtf8(bytes) == ValidUpTo(bytes, 1) = Len(bytes)

\* String::from_utf8(...).unwrap_or_default(), wrapped in Ok
\* Variant: unwrap() in place of unwrap_or_default().
FinishUnwrap(dec) ==
    IF IsUtf8(FilterNonZero(dec)) THEN Ok(FilterNonZero(dec))
    ELSE [tag |-> "Panic", value |-> <<>>]

\* Variant: the longest well-formed prefix is kept.
FinishValidPrefix(dec) ==
    Ok(SubSeq(FilterNonZero(dec), 1, ValidUpTo(FilterNonZero(dec), 1)))

Finish(dec) ==
    IF IsUtf8(FilterNonZero(dec)) THEN Ok(FilterNonZero(dec)) ELSE Ok(<<>>)

\* The loop over decode_str.chars(), from character i on.
RECURSIVE ScanFrom(_, _, _, _, _)
ScanFrom(cs, text, i, buf, dec) ==
    IF i > Len(text) THEN AfterLoop(buf, dec)
    ELSE LET g == GroupStep(Lookup(cs, buf, text[i]), dec)
         IN  ScanFrom(cs, text, i + 1, g.buffer, g.decoded)

\* Decode::execute as a function of its two arguments.
execute(cs, text) ==
    IF CharsetRejected(cs) THEN ErrCharsetError
    ELSE Finish(ScanFrom(cs, text, 1, <<>>, <<>>))

(***************************************************************************)
(* The state machine: one call of Decode::execute.                         *)
(***************************************************************************)
Entered ==
    /\ pos = 0
    /\ buffer = <<>>
    /\ decoded = <<>>
    /\ result = NoResult
    /\ pc = "check"

\* A caller hands a charset and a raw text to the decoder.
Init ==
    /\ charset \in Charsets
    /\ decode_str \in Texts
    /\ origin = NoOrigin
    /\ Entered

\* A caller encodes a payload and hands the text to the decoder, with the
\* same charset or with one that has a repeated character.
InitEncoded ==
    /\ \E enc \in {DocCharset, Base64Charset}, p \in Payloads :
          /\ origin = [encoded |-> TRUE, charset |-> enc, payload |-> p]
          /\ decode_str = Encode(enc, p)
          /\ charset \in {enc} \cup DupCharsets
    /\ Entered

Reject ==
    /\ pc = "check"
    /\ CharsetRejected(charset)
    /\ result' = ErrCharsetError
    /\ pc' = "done"
    /\ UNCHANGED <<charset, decode_str, pos, buffer, decoded, origin>>

Accept ==
    /\ pc = "check"
    /\ ~CharsetRejected(charset)
    /\ pc' = "loop"
    /\ UNCHANGED <<charset, decode_str, pos, buffer, decoded, result, origin>>

NextChar ==
    /\ pc = "loop"
    /\ pos < Len(decode_str)
    /\ pos' = pos + 1
    /\ buffer' = Lookup(charset, buffer, decode_str[pos + 1])
    /\ pc' = "group"
    /\ UNCHANGED <<charset, decode_str, decoded, result, origin>>

GroupCheck ==
    /\ pc = "group"
    /\ buffer' = GroupStep(buffer, decoded).buffer
    /\ decoded' = GroupStep(buffer, decoded).decoded
    /\ pc' = "loop"
    /\ UNCHANGED <<charset, decode_str, pos, result, origin>>

Return ==
    /\ pc = "loop"
    /\ pos = Len(decode_str)
    /\ result' = Finish(AfterLoop(buffer, decoded))
    /\ pc' = "done"
    /\ UNCHANGED <<charset, decode_str, pos, buffer, decoded, origin>>

Next == Reject \/ Accept \/ NextChar \/ GroupCheck \/ Return

Spec == Init /\ [][Next]_vars

SpecEncoded == InitEncoded /\ [][Next]_vars

(***************************************************************************)
(* Vocabulary of the properties.                                           *)
(***************************************************************************)
InCharset(cs, ch) == \E i \in 1..Len(cs) : cs[i] = ch

\* The characters of the text that belong to the charset, in order.
Members(cs, text) == SelectSeq(text, LAMBDA ch : InCharset(cs, ch))

\* How many charset characters the scan has consumed so far.
Consumed == Len(Members(charset, SubSeq(decode_str, 1, pos)))

\* The text without its last k charset characters.
RECURSIVE DropLastMembers(_, _, _)
DropLastMembers(cs, text, k) ==
    IF k = 0 \/ text = <<>> THEN text
    ELSE IF InCharset(cs, text[Len(text)])
        THEN DropLastMembers(cs, SubSeq(text, 1, Len(text) - 1), k - 1)
        ELSE Append(DropLastMembers(cs, SubSeq(text, 1, Len(text) - 1), k),
                    text[Len(text)])

RECURSIVE WithoutZeros(_)
WithoutZeros(s) ==
    IF s = <<>> THEN <<>>
    ELSE IF Head(s) = 0 THEN WithoutZeros(Tail(s))
    ELSE <<Head(s)>> \o WithoutZeros(Tail(s))

NoZero(s) == \A i \in 1..Len(s) : s[i] # 0

\* The three bytes the four positions i0..i3 stand for, positions not narrowed.
BytesOfPositions(i0, i1, i2, i3) ==
    LET combined == BitOr(BitOr(BitOr(Shl(i0, 18), Shl(i1, 12)), Shl(i2, 6)), i3)
    IN  <<Shr(combined, 16) % 256, Shr(combined, 8) % 256, combined % 256>>

RoundTripCase ==
    /\ pc = "done"
    /\ origin.encoded
    /\ charset = origin.charset
    /\ NoZero(origin.payload)

(***************************************************************************)
(* C1 as stated: decoding, with the same duplicate-free charset, the text  *)
(* the encoder made of a payload of non-zero bytes (length a multiple of   *)
(* 3) returns exactly the payload.                                         *)
(***************************************************************************)
C1_RoundTripAnyNonZeroPayload ==
    RoundTripCase => result = Ok(origin.payload)

(***************************************************************************)
(* C1, amended: the round trip returns exactly the payload when the        *)
(* payload of non-zero bytes is also well-formed UTF-8.                    *)
(***************************************************************************)
C1_RoundTripUtf8Payload ==
    RoundTripCase /\ IsUtf8(origin.payload) => result = Ok(origin.payload)

C1_Witness ==
    /\ RoundTripCase
    /\ IsUtf8(origin.payload)
    /\ Len(origin.payload) >= 6
    /\ \E i \in 1..Len(origin.payload) : origin.payload[i] >= 128
    /\ result = Ok(origin.payload)

(***************************************************************************)
(* C2: with a charset that fails validation the call ends in               *)
(* Err(CharsetError) for every text, no character of the text is scanned   *)
(* and nothing is decoded.                                                 *)
(***************************************************************************)
C2_InvalidCharsetRejected ==
    ~judge_charset_safe(charset) =>
        /\ pc \in {"check", "done"}
        /\ pos = 0 /\ buffer = <<>> /\ decoded = <<>>
        /\ pc = "done" => result = ErrCharsetError

C2_Witness ==
    /\ pc = "done"
    /\ ~judge_charset_safe(charset)
    /\ Len(Members(charset, decode_str)) >= 4
    /\ result = ErrCharsetError

(***************************************************************************)
(* C3: with a charset that passes validation every text (malformed,        *)
(* truncated, empty) ends in Ok: before the end no error is set and the    *)
(* call is at a point from which its next step can be taken, and at the    *)
(* end the result is Ok.                                                   *)
(***************************************************************************)
C3_ValidCharsetAlwaysOk ==
    judge_charset_safe(charset) =>
        /\ pc = "done" => result.tag = "Ok"
        /\ pc # "done" =>
              /\ result = NoResult
              /\ \/ pc = "check" /\ ~CharsetRejected(charset)
                 \/ pc = "loop" /\ pos <= Len(decode_str)
                 \/ pc = "group" /\ Len(buffer) <= 4

C3_Witness ==
    /\ pc = "done"
    /\ judge_charset_safe(charset)
    /\ buffer # <<>>
    /\ decoded # <<>>
    /\ ~IsUtf8(WithoutZeros(decoded))
    /\ result.tag = "Ok"

(***************************************************************************)
(* C4: the result is that of the text without its last (n mod 4) charset   *)
(* characters, n being the number of charset characters of the text: the   *)
(* indices that complete no group of 4 produce no output.                  *)
(***************************************************************************)
C4_TrailingIndicesDropped ==
    pc = "done" /\ judge_charset_safe(charset) =>
        result = execute(charset,
                         DropLastMembers(charset, decode_str,
                                         Len(Members(charset, decode_str)) % 4))

C4_Witness ==
    /\ pc = "done"
    /\ judge_charset_safe(charset)
    /\ Len(Members(charset, decode_str)) = 5
    /\ Len(buffer) = 1
    /\ result.tag = "Ok"
    /\ result.value # <<>>

(***************************************************************************)
(* C5: characters outside the charset are skipped wherever they stand: the *)
(* result is that of the text with every such character deleted, so texts  *)
(* that differ only in such characters decode alike.                       *)
(***************************************************************************)
C5_UnknownCharsSkipped ==
    pc = "done" /\ judge_charset_safe(charset) =>
        result = execute(charset, Members(charset, decode_str))

C5_Witness ==
    /\ pc = "done"
    /\ judge_charset_safe(charset)
    /\ Len(decode_str) = 5
    /\ InCharset(charset, decode_str[1])
    /\ InCharset(charset, decode_str[5])
    /\ \E i \in 2..4 : ~InCharset(charset, decode_str[i])
    /\ Len(decoded) = 3
    /\ result.tag = "Ok"
    /\ result.value # <<>>

C7_InvalidUtf8GivesEmpty ==
    /\ pc = "done"
    /\ judge_charset_safe(charset)
    /\ ~IsUtf8(WithoutZeros(decoded))
    => result = Ok(<<>>)

C7_Witness ==
    /\ pc = "done"
    /\ judge_charset_safe(charset)
    /\ ~IsUtf8(WithoutZeros(decoded))
    /\ WithoutZeros(decoded)[1] = 65
    /\ Len(decoded) >= 6
    /\ result = Ok(<<>>)

(***************************************************************************)
(* C8 as stated: for every charset length, each complete group of four     *)
(* charset characters appends the three bytes (combined >> 16) & 0xFF,     *)
(* (combined >> 8) & 0xFF, combined & 0xFF of the combination of their     *)
(* positions within the charset.                                           *)
(***************************************************************************)
C8_GroupBytesFromPositions ==
    judge_charset_safe(charset) =>
        \A g \in 1..(Len(decoded) \div 3) :
            LET m == Members(charset, SubSeq(decode_str, 1, pos))
                p(k) == Position(charset, m[4 * g - 4 + k]).idx
            IN  SubSeq(decoded, 3 * g - 2, 3 * g)
                    = BytesOfPositions(p(1), p(2), p(3), p(4))

(***************************************************************************)
(* C9 as stated: the combination of every complete index quad is below     *)
(* 2^24 and gives each index back as (combined >> (18 - 6k)) & 0x3F.       *)
(***************************************************************************)
C9_SixBitSplit ==
    judge_charset_safe(charset) /\ pc = "group" /\ Len(buffer) = 4 =>
        /\ Combined(buffer) < Pow2(24)
        /\ \A k \in 0..3 : Shr(Combined(buffer), 18 - 6 * k) % 64 = buffer[k + 1]

(***************************************************************************)
(* C10: after any prefix of the text holding n charset characters the      *)
(* index buffer holds n mod 4 entries at the head of the loop (never more  *)
(* than 3 there, never more than 4 anywhere), the unfiltered decoded bytes *)
(* number 3 * floor(n / 4), and the result has at most that many bytes.    *)
(***************************************************************************)
C10_LoopInvariant ==
    /\ Len(buffer) <= 4
    /\ 4 * Len(decoded) + 3 * Len(buffer) = 3 * Consumed
    /\ pc \in {"loop", "done"} =>
          /\ Len(buffer) = Consumed % 4
          /\ Len(decoded) = 3 * (Consumed \div 4)
    /\ pc = "done" => Len(result.value) <= 3 * (Consumed \div 4)

C10_Witness ==
    /\ pc = "loop"
    /\ Consumed = 5
    /\ Len(buffer) = 1
    /\ Len(decoded) = 3

====
